---- MODULE Spec2Model ----
(***************************************************************************)
(* Model of the frontend utilities of stellar-raise-contracts:             *)
(*   - dateFormatter (formatDate, formatDateTime, formatRelativeTime,      *)
(*     isExpired), src/unnamed/part_000 lines 147-215;                     *)
(*   - currencyFormatter (stroopsToXLM, xlmToStroops, formatProgress),     *)
(*     whose tests are src/unnamed/part_000 lines 1-145;                   *)
(*   - the ScrollToTop widget, src/frontend/components/scroll-to-top.js    *)
(*     and src/frontend/components/ScrollToTop.tsx.                        *)
(***************************************************************************)
EXTENDS Integers, Sequences, FiniteSets, TLC

VARIABLES
    clock,          \* the wall clock: [s |-> whole seconds, ms |-> milliseconds]
    tzOffset,       \* the host's local time zone, seconds east of UTC
    out,            \* the last call of a formatter and its value, or NoCall
    readyState,     \* document.readyState when scroll-to-top.js is evaluated
    scrollY,        \* window.scrollY
    scrollPending,  \* a scroll event is queued for dispatch
    smooth,         \* a smooth scroll to the top is under way
    widget,         \* the ScrollToTop instance of scroll-to-top.js, or NoWidget
    listeners,      \* the function objects registered for "scroll" by the widget
    nextFn,         \* the identity of the next function object created
    tsx             \* the React component of ScrollToTop.tsx

scrollVars ==
    <<readyState, scrollY, scrollPending, smooth, widget, listeners, nextFn, tsx>>

vars == <<clock, tzOffset, out, scrollVars>>

-----------------------------------------------------------------------------
(* JavaScript values that reach the formatters *)

Null == [t |-> "null"]

Undefined == [t |-> "undefined"]

Num(n) == [t |-> "number", v |-> n]

\* a number that is not an integer below 2^31: the double d
Dbl(d) == [t |-> "double", d |-> d]

Bool(b) == [t |-> "boolean", v |-> b]

Str(s) == [t |-> "string", v |-> s]

NoCall == [fn |-> "none"]

\* the caller takes the value returned by the last call
Return ==
    /\ out # NoCall
    /\ out' = NoCall
    /\ UNCHANGED <<clock, tzOffset, scrollVars>>

\* !x for null, undefined and numbers
Falsy(x) == x.t \in {"null", "undefined"} \/ (x.t = "number" /\ x.v = 0)

\* a guard that leaves out `&& timestamp !== 0`
StrictNotZeroDropped(x) == TRUE

\* x !== 0
StrictNotZero(x) == ~(x.t = "number" /\ x.v = 0)

\* Number(x) for null and for integers
Number(x) == IF x.t = "null" THEN 0 ELSE x.v

Abs(n) == IF n < 0 THEN -n ELSE n

-----------------------------------------------------------------------------
(* IEEE 754 binary64 arithmetic, the arithmetic of JavaScript numbers.      *)
(* A natural number is written in limbs of 15 bits, least significant       *)
(* first; a double is a sign, a 53-bit significand m and an exponent e,     *)
(* of value m * 2^e, with 2^52 <= m < 2^53 unless the double is zero.       *)

Base == 2^15

LimbIdx == 1..8

Pow2(k) == 2^k

Max(S) == CHOOSE m \in S : \A n \in S : n <= m

\* the limbs f(1), ..., f(8), each computed once
Limbs(f(_)) == <<f(1), f(2), f(3), f(4), f(5), f(6), f(7), f(8)>>

BigZero == <<0, 0, 0, 0, 0, 0, 0, 0>>

\* 0 <= n < 2^31
BigFromInt(n) ==
    <<n % Base, (n \div Base) % Base, n \div (Base * Base), 0, 0, 0, 0, 0>>

\* x < 2^31
BigToInt(x) == x[1] + x[2] * Base + x[3] * Base * Base

BigCmp(x, y) ==
    LET differ == {i \in LimbIdx : x[i] # y[i]}
    IN  IF differ = {} THEN 0
        ELSE IF x[Max(differ)] > y[Max(differ)] THEN 1 ELSE -1

RECURSIVE AddFrom(_, _, _, _)
AddFrom(x, y, i, carry) ==
    IF i > 8 THEN <<>>
    ELSE <<(x[i] + y[i] + carry) % Base>>
            \o AddFrom(x, y, i + 1, (x[i] + y[i] + carry) \div Base)

BigAdd(x, y) == AddFrom(x, y, 1, 0)

RECURSIVE SubFrom(_, _, _, _)
SubFrom(x, y, i, borrow) ==
    IF i > 8 THEN <<>>
    ELSE <<(x[i] - y[i] - borrow) % Base>>
            \o SubFrom(x, y, i + 1, IF x[i] - y[i] - borrow < 0 THEN 1 ELSE 0)

\* x >= y
BigSub(x, y) == SubFrom(x, y, 1, 0)

RECURSIVE MulSmallFrom(_, _, _, _)
MulSmallFrom(x, d, i, carry) ==
    IF i > 8 THEN <<>>
    ELSE <<(x[i] * d + carry) % Base>>
            \o MulSmallFrom(x, d, i + 1, (x[i] * d + carry) \div Base)

\* 0 <= d < Base
BigMulSmall(x, d) == MulSmallFrom(x, d, 1, 0)

BigShiftLimbs(x, a) ==
    LET f(i) == IF i - a >= 1 THEN x[i - a] ELSE 0
    IN  Limbs(f)

RECURSIVE BigMulFrom(_, _, _)
BigMulFrom(x, y, j) ==
    IF j > 8 THEN BigZero
    ELSE IF y[j] = 0 THEN BigMulFrom(x, y, j + 1)
    ELSE BigAdd(BigShiftLimbs(BigMulSmall(x, y[j]), j - 1), BigMulFrom(x, y, j + 1))

BigMul(x, y) == BigMulFrom(x, y, 1)

\* x * 2^k
BigShl(x, k) ==
    LET a == k \div 15
        b == k % 15
        f(i) ==
            LET lo  == IF i - a >= 1 /\ i - a <= 8 THEN x[i - a] ELSE 0
                lo2 == IF i - a - 1 >= 1 /\ i - a - 1 <= 8 THEN x[i - a - 1] ELSE 0
            IN  ((lo % Pow2(15 - b)) * Pow2(b)) + (lo2 \div Pow2(15 - b))
    IN  Limbs(f)

\* floor(x / 2^k)
BigShr(x, k) ==
    LET a == k \div 15
        b == k % 15
        f(i) ==
            LET hi  == IF i + a <= 8 THEN x[i + a] ELSE 0
                hi2 == IF i + a + 1 <= 8 THEN x[i + a + 1] ELSE 0
            IN  (hi \div Pow2(b)) + ((hi2 % Pow2(b)) * Pow2(15 - b))
    IN  Limbs(f)

\* bit i of x, bit 0 the least significant
BigBit(x, i) ==
    IF i < 0 \/ i >= 120 THEN 0
    ELSE (x[(i \div 15) + 1] \div Pow2(i % 15)) % 2

BigBitLength(x) ==
    IF x = BigZero THEN 0
    ELSE LET h == Max({i \in LimbIdx : x[i] # 0})
         IN  15 * (h - 1) + (CHOOSE k \in 1..15 : Pow2(k - 1) <= x[h] /\ x[h] < Pow2(k))

\* the k low bits of x are zero
BigLowZero(x, k) == k <= 0 \/ BigShl(BigShr(x, k), k) = x

Finite(neg, m, e) == [k |-> "fin", neg |-> neg, m |-> m, e |-> e]

FZero == Finite(FALSE, BigZero, 0)

FInf(neg) == [k |-> "inf", neg |-> neg, m |-> BigZero, e |-> 0]

FNaN == [k |-> "nan", neg |-> FALSE, m |-> BigZero, e |-> 0]

FIsZero(x) == x.k = "fin" /\ x.m = BigZero

\* the double nearest to X * 2^e, ties to the even significand
RoundTo53(neg, X, e) ==
    LET L == BigBitLength(X)
    IN  IF L = 0 THEN FZero
        ELSE IF L <= 53 THEN Finite(neg, BigShl(X, 53 - L), e - (53 - L))
        ELSE
            LET k      == L - 53
                q      == BigShr(X, k)
                round  == BigBit(X, k - 1) = 1
                sticky == ~BigLowZero(X, k - 1)
                up     == round /\ (sticky \/ BigBit(q, 0) = 1)
                m0     == IF up THEN BigAdd(q, BigFromInt(1)) ELSE q
            IN  IF BigBitLength(m0) = 54
                THEN Finite(neg, BigShr(m0, 1), e + k + 1)
                ELSE Finite(neg, m0, e + k)

\* the double of the integer n, |n| < 2^31
FromInt(n) == RoundTo53(n < 0, BigFromInt(Abs(n)), 0)

\* x * y, correctly rounded
FMul(x, y) ==
    CASE x.k = "nan" \/ y.k = "nan" -> FNaN
      [] x.k = "inf" \/ y.k = "inf" ->
           IF FIsZero(x) \/ FIsZero(y) THEN FNaN ELSE FInf(x.neg # y.neg)
      [] FIsZero(x) \/ FIsZero(y) -> FZero
      [] OTHER -> RoundTo53(x.neg # y.neg, BigMul(x.m, y.m), x.e + y.e)

\* floor(r * 2^n / d) and the remainder, for r < d and n >= 1: binary long
\* division, the first half of the quotient bits and then the rest
RECURSIVE DivLoop(_, _, _)
DivLoop(r, d, n) ==
    IF n = 1
    THEN LET r2 == BigShl(r, 1)
         IN  IF BigCmp(r2, d) >= 0
             THEN [q |-> BigFromInt(1), r |-> BigSub(r2, d)]
             ELSE [q |-> BigZero, r |-> r2]
    ELSE LET h  == n \div 2
             hi == DivLoop(r, d, h)
             lo == DivLoop(hi.r, d, n - h)
         IN  [q |-> BigAdd(BigShl(hi.q, n - h), lo.q), r |-> lo.r]

\* x / y, correctly rounded: 55 quotient bits, then a sticky bit
FDiv(x, y) ==
    CASE x.k = "nan" \/ y.k = "nan" -> FNaN
      [] x.k = "inf" -> IF y.k = "inf" THEN FNaN ELSE FInf(x.neg # y.neg)
      [] y.k = "inf" -> FZero
      [] FIsZero(y) -> IF FIsZero(x) THEN FNaN ELSE FInf(x.neg # y.neg)
      [] FIsZero(x) -> FZero
      [] OTHER ->
           LET ge == BigCmp(x.m, y.m) >= 0
               qr == DivLoop(IF ge THEN BigSub(x.m, y.m) ELSE x.m, y.m, 55)
               Q  == IF ge THEN BigAdd(qr.q, BigShl(BigFromInt(1), 55)) ELSE qr.q
               X  == BigAdd(BigShl(Q, 1),
                            IF qr.r = BigZero THEN BigZero ELSE BigFromInt(1))
           IN  RoundTo53(x.neg # y.neg, X, x.e - y.e - 56)

\* |x| < |y| for doubles that are not NaN
MagLess(x, y) ==
    CASE x.k = "inf" -> FALSE
      [] y.k = "inf" -> TRUE
      [] FIsZero(y) -> FALSE
      [] FIsZero(x) -> TRUE
      [] OTHER -> x.e < y.e \/ (x.e = y.e /\ BigCmp(x.m, y.m) < 0)

\* x < y
FLess(x, y) ==
    CASE x.k = "nan" \/ y.k = "nan" -> FALSE
      [] FIsZero(x) /\ FIsZero(y) -> FALSE
      [] x.neg /\ ~y.neg -> TRUE
      [] ~x.neg /\ y.neg -> FALSE
      [] x.neg -> MagLess(y, x)
      [] OTHER -> MagLess(x, y)

\* Math.min(x, y)
MathMin(x, y) ==
    IF x.k = "nan" \/ y.k = "nan" THEN FNaN
    ELSE IF FLess(y, x) THEN y ELSE x

\* Math.max(x, y)
MathMax(x, y) ==
    IF x.k = "nan" \/ y.k = "nan" THEN FNaN
    ELSE IF FLess(x, y) THEN y ELSE x

\* the doubles next to a positive double
FNext(x) ==
    IF BigCmp(x.m, BigSub(BigShl(BigFromInt(1), 53), BigFromInt(1))) = 0
    THEN Finite(x.neg, BigShl(BigFromInt(1), 52), x.e + 1)
    ELSE Finite(x.neg, BigAdd(x.m, BigFromInt(1)), x.e)

FPrev(x) ==
    IF BigCmp(x.m, BigShl(BigFromInt(1), 52)) = 0
    THEN Finite(x.neg, BigSub(BigShl(BigFromInt(1), 53), BigFromInt(1)), x.e - 1)
    ELSE Finite(x.neg, BigSub(x.m, BigFromInt(1)), x.e)

\* x.toFixed(2) for |x| < 2^31 / 100: the integer n nearest to |x| * 100, the
\* larger one at a tie, written with two decimals
toFixed2(x) ==
    CASE x.k = "nan" -> "NaN"
      [] x.k = "inf" -> IF x.neg THEN "-Infinity" ELSE "Infinity"
      [] OTHER ->
           LET N == BigMul(x.m, BigFromInt(100))
               k == 0 - x.e
               n == IF FIsZero(x) THEN 0
                    ELSE IF k <= 0 THEN BigToInt(BigShl(N, 0 - k))
                    ELSE BigToInt(BigShr(N, k)) + BigBit(N, k - 1)
               frac == n % 100
           IN  (IF x.neg /\ ~FIsZero(x) THEN "-" ELSE "")
                   \o ToString(n \div 100) \o "."
                   \o (IF frac < 10 THEN "0" \o ToString(frac) ELSE ToString(frac))

-----------------------------------------------------------------------------
(* The page before any ScrollToTop exists *)

NoWidget == [constructed |-> FALSE]

\* no scroll event has been handled yet
NotSeen == Undefined

\* the component before it is mounted and after it is unmounted
TsxUnmounted ==
    [mounted |-> FALSE, isVisible |-> FALSE, listening |-> FALSE, seen |-> NotSeen]

\* the page, when only the formatters are exercised
ScrollIdle ==
    /\ readyState = "complete"
    /\ scrollY = 0
    /\ scrollPending = FALSE
    /\ smooth = FALSE
    /\ widget = NoWidget
    /\ listeners = {}
    /\ nextFn = 1
    /\ tsx = TsxUnmounted

-----------------------------------------------------------------------------
(* Bounds of the temporal model *)

\* the clock starts at the timestamp of test-date.mjs
ClockStart == 1740182400

\* how many whole-second steps the clock takes
MaxTicks == 4

\* the steps the clock advances by, in seconds
TickSteps == {1, 60, 3600, 86400}

\* the host's time zones: New York (EST), UTC, India
TimeZoneOffsets == {-18000, 0, 19800}

\* offsets of the deadlines from ClockStart, in seconds
DeadlineOffsets ==
    {0, 1, 59, 60, 61, 119, 120, 3599, 3600, 3601, 7199, 7200,
     86399, 86400, 86401, 172799, 172800, 259200}

TimestampInputs ==
    {Null, Undefined, Num(0), Num(-86400), Num(1)}
        \cup {Num(ClockStart + k) : k \in DeadlineOffsets}

-----------------------------------------------------------------------------
(* dateFormatter *)

\* the em-dash U+2014 that the formatters return for a missing timestamp
\* (the module's strings are ASCII)
Placeholder == "--"

\* Math.floor(Date.now() / 1000), with Date.now() = clock.s * 1000 + clock.ms
NowSeconds == clock.s + (clock.ms \div 1000)

MonthShort ==
    <<"Jan", "Feb", "Mar", "Apr", "May", "Jun",
      "Jul", "Aug", "Sep", "Oct", "Nov", "Dec">>

\* new Date(Number(timestamp) * 1000) read in the host's time zone:
\* the civil date and the time of day of the instant `seconds`
LocalDate(seconds) ==
    LET local == seconds + tzOffset
        days  == local \div 86400
        sod   == local % 86400
        z     == days + 719468
        era   == z \div 146097
        doe   == z - era * 146097
        yoe   == (doe - (doe \div 1460) + (doe \div 36524) - (doe \div 146096)) \div 365
        doy   == doe - (365 * yoe + (yoe \div 4) - (yoe \div 100))
        mp    == (5 * doy + 2) \div 153
        d     == doy - ((153 * mp + 2) \div 5) + 1
        m     == IF mp < 10 THEN mp + 3 ELSE mp - 9
        y     == yoe + era * 400 + (IF m <= 2 THEN 1 ELSE 0)
    IN  [year |-> y, month |-> m, day |-> d,
         hour |-> sod \div 3600, minute |-> (sod % 3600) \div 60]

\* toLocaleDateString("en-US", {year: "numeric", month: "short", day: "numeric"})
toLocaleDateString(seconds) ==
    LET c == LocalDate(seconds)
    IN  MonthShort[c.month] \o " " \o ToString(c.day) \o ", " \o ToString(c.year)

\* minute: "2-digit"
TwoDigit(n) == IF n < 10 THEN "0" \o ToString(n) ELSE ToString(n)

\* toLocaleString("en-US", {year: "numeric", month: "short", day: "numeric",
\*                          hour: "numeric", minute: "2-digit"})
toLocaleString(seconds) ==
    LET c   == LocalDate(seconds)
        h12 == IF c.hour % 12 = 0 THEN 12 ELSE c.hour % 12
    IN  toLocaleDateString(seconds) \o ", " \o ToString(h12) \o ":"
            \o TwoDigit(c.minute) \o (IF c.hour < 12 THEN " AM" ELSE " PM")

formatDate(timestamp) ==
    IF Falsy(timestamp) /\ StrictNotZero(timestamp)
    THEN Placeholder
    ELSE toLocaleDateString(Number(timestamp))

\* formatDateTime with the guard of formatRelativeTime: `if (!timestamp)`
formatDateTimeZeroMissing(timestamp) ==
    IF Falsy(timestamp)
    THEN Placeholder
    ELSE toLocaleString(Number(timestamp))

formatDateTime(timestamp) ==
    IF Falsy(timestamp) /\ StrictNotZero(timestamp)
    THEN Placeholder
    ELSE toLocaleString(Number(timestamp))

\* a plural that tests `n > 1`: "0 minute"
PluralAboveOne(n, unit) == ToString(n) \o " " \o unit \o (IF n > 1 THEN "s" ELSE "")

\* `${n} ${unit}${n !== 1 ? "s" : ""}`
Plural(n, unit) == ToString(n) \o " " \o unit \o (IF n # 1 THEN "s" ELSE "")

\* formatRelativeTime with `diff >= 0`: the deadline's own second is future
formatRelativeTimeNowIsFuture(timestamp) ==
    IF Falsy(timestamp) THEN Placeholder
    ELSE
        LET now     == NowSeconds
            diff    == Number(timestamp) - now
            absDiff == Abs(diff)
            minutes == absDiff \div 60
            hours   == absDiff \div 3600
            days    == absDiff \div 86400
        IN  IF diff >= 0
            THEN IF days > 0 THEN Plural(days, "day") \o " left"
                 ELSE IF hours > 0 THEN Plural(hours, "hour") \o " left"
                 ELSE Plural(minutes, "minute") \o " left"
            ELSE IF days > 0 THEN "Ended " \o Plural(days, "day") \o " ago"
                 ELSE IF hours > 0 THEN "Ended " \o Plural(hours, "hour") \o " ago"
                 ELSE "Ended " \o Plural(minutes, "minute") \o " ago"

formatRelativeTime(timestamp) ==
    IF Falsy(timestamp) THEN Placeholder
    ELSE
        LET now     == NowSeconds
            diff    == Number(timestamp) - now
            absDiff == Abs(diff)
            minutes == absDiff \div 60
            hours   == absDiff \div 3600
            days    == absDiff \div 86400
        IN  IF diff > 0
            THEN IF days > 0 THEN Plural(days, "day") \o " left"
                 ELSE IF hours > 0 THEN Plural(hours, "hour") \o " left"
                 ELSE Plural(minutes, "minute") \o " left"
            ELSE IF days > 0 THEN "Ended " \o Plural(days, "day") \o " ago"
                 ELSE IF hours > 0 THEN "Ended " \o Plural(hours, "hour") \o " ago"
                 ELSE "Ended " \o Plural(minutes, "minute") \o " ago"

\* isExpired with `>=`: a deadline expires in the second it names
isExpiredAtDeadline(timestamp) ==
    IF Falsy(timestamp) THEN FALSE
    ELSE NowSeconds >= Number(timestamp)

isExpired(timestamp) ==
    IF Falsy(timestamp) THEN FALSE
    ELSE NowSeconds > Number(timestamp)

-----------------------------------------------------------------------------
(* The temporal specification: the clock advances and callers format        *)
(* timestamps against it.                                                   *)

TimeInit ==
    /\ clock = [s |-> ClockStart, ms |-> 0]
    /\ tzOffset \in TimeZoneOffsets
    /\ out = NoCall
    /\ ScrollIdle

TicksTaken(delta) ==
    LET d == delta \div 86400
        h == (delta % 86400) \div 3600
        m == (delta % 3600) \div 60
        s == delta % 60
    IN  d + h + m + s

\* the wall clock advances by whole seconds, between two calls
Tick ==
    \E step \in TickSteps :
        /\ out = NoCall
        /\ TicksTaken(clock.s + step - ClockStart) <= MaxTicks
        /\ clock' = [clock EXCEPT !.s = @ + step]
        /\ out' = NoCall
        /\ UNCHANGED <<tzOffset, scrollVars>>

\* the wall clock advances within the current second
TickMs ==
    /\ out = NoCall
    /\ clock.ms = 0
    /\ clock' = [clock EXCEPT !.ms = 500]
    /\ out' = NoCall
    /\ UNCHANGED <<tzOffset, scrollVars>>

CallFormatDate ==
    \E ts \in TimestampInputs :
        /\ out = NoCall
        /\ out' = [fn |-> "formatDate", arg |-> ts, now |-> NowSeconds,
                   value |-> Str(formatDate(ts))]
        /\ UNCHANGED <<clock, tzOffset, scrollVars>>

CallFormatDateTime ==
    \E ts \in TimestampInputs :
        /\ out = NoCall
        /\ out' = [fn |-> "formatDateTime", arg |-> ts, now |-> NowSeconds,
                   value |-> Str(formatDateTime(ts))]
        /\ UNCHANGED <<clock, tzOffset, scrollVars>>

CallFormatRelativeTime ==
    \E ts \in TimestampInputs :
        /\ out = NoCall
        /\ out' = [fn |-> "formatRelativeTime", arg |-> ts, now |-> NowSeconds,
                   value |-> Str(formatRelativeTime(ts))]
        /\ UNCHANGED <<clock, tzOffset, scrollVars>>

CallIsExpired ==
    \E ts \in TimestampInputs :
        /\ out = NoCall
        /\ out' = [fn |-> "isExpired", arg |-> ts, now |-> NowSeconds,
                   value |-> Bool(isExpired(ts))]
        /\ UNCHANGED <<clock, tzOffset, scrollVars>>

TimeNext ==
    \/ Tick
    \/ TickMs
    \/ CallFormatDate
    \/ CallFormatDateTime
    \/ CallFormatRelativeTime
    \/ CallIsExpired
    \/ Return

TimeSpec == TimeInit /\ [][TimeNext]_vars

-----------------------------------------------------------------------------
(* Claims about dateFormatter, checked under TimeSpec *)

IsRelativeCall == out.fn = "formatRelativeTime" /\ ~Falsy(out.arg)

OutDiff == out.arg.v - out.now

StartsWithEnded(s) == Len(s) >= 6 /\ SubSeq(s, 1, 6) = "Ended "

EndsWithLeft(s) == Len(s) >= 5 /\ SubSeq(s, Len(s) - 4, Len(s)) = " left"

\* the one unit the claim selects: the seconds it counts and its label
UnitOf(absDiff) ==
    IF absDiff >= 86400 THEN [size |-> 86400, label |-> "day"]
    ELSE IF absDiff >= 3600 THEN [size |-> 3600, label |-> "hour"]
    ELSE [size |-> 60, label |-> "minute"]

\* C1: for a non-falsy timestamp ts read against the clock value now,
\* formatRelativeTime reports exactly one unit (days if a whole day fits in
\* |ts - now|, else hours if a whole hour fits, else minutes, even when the
\* count is 0), the label is plural exactly when the count is not 1, and the
\* string is "<N> <unit> left" when ts - now > 0 and "Ended <N> <unit> ago"
\* when ts - now <= 0.
Thm_C1_RelativeTimeShape ==
    IsRelativeCall =>
        LET a    == Abs(OutDiff)
            u    == UnitOf(a)
            n    == a \div u.size
            word == IF n = 1 THEN u.label ELSE u.label \o "s"
        IN  /\ n * u.size <= a /\ a < (n + 1) * u.size
            /\ out.value =
                 Str(IF OutDiff > 0
                     THEN ToString(n) \o " " \o word \o " left"
                     ELSE "Ended " \o ToString(n) \o " " \o word \o " ago")

\* a deadline less than a minute ahead is rendered in minutes, with count 0
Wit_C1_ZeroMinutesLeft ==
    /\ IsRelativeCall
    /\ OutDiff > 0 /\ OutDiff < 60
    /\ out.value = Str("0 minutes left")

\* C2: isExpired is false for null, undefined and 0; for every other
\* timestamp it is true exactly when the clock is strictly past it, so it is
\* false in the second the timestamp names.
Thm_C2_IsExpiredStrict ==
    out.fn = "isExpired" =>
        /\ out.arg \in {Null, Undefined, Num(0)} => out.value = Bool(FALSE)
        /\ out.arg \notin {Null, Undefined, Num(0)} =>
             /\ out.now > out.arg.v  => out.value = Bool(TRUE)
             /\ out.now <= out.arg.v => out.value = Bool(FALSE)

Wit_C2_AtDeadline ==
    /\ out.fn = "isExpired"
    /\ out.arg.t = "number" /\ out.arg.v = out.now
    /\ out.value = Bool(FALSE)

\* the epoch as the host's zone shows it
EpochDate == IF tzOffset < 0 THEN "Dec 31, 1969" ELSE "Jan 1, 1970"

\* C3: a zero timestamp is handled asymmetrically: formatDate(0) and
\* formatDateTime(0) render the epoch date, never the placeholder, while
\* formatRelativeTime(0) is the placeholder and isExpired(0) is false; for
\* null and undefined all formatters give the placeholder and isExpired false.
Thm_C3_ZeroAsymmetry ==
    /\ out.fn \in {"formatDate", "formatDateTime"} /\ out.arg = Num(0) =>
         /\ out.value # Str(Placeholder)
         /\ SubSeq(out.value.v, 1, Len(EpochDate)) = EpochDate
    /\ out.fn = "formatDate" /\ out.arg = Num(0) => out.value = Str(EpochDate)
    /\ out.fn = "formatRelativeTime" /\ out.arg = Num(0) =>
         out.value = Str(Placeholder)
    /\ out.fn = "isExpired" /\ out.arg = Num(0) => out.value = Bool(FALSE)
    /\ out.fn # "none" /\ out.arg \in {Null, Undefined} =>
         out.value = IF out.fn = "isExpired" THEN Bool(FALSE) ELSE Str(Placeholder)

Wit_C3_EpochRendered ==
    /\ out.fn = "formatDate"
    /\ out.arg = Num(0)
    /\ out.value = Str("Jan 1, 1970")

\* C4 as stated: for a missing or a zero timestamp every formatter, the
\* absolute ones included, emits the placeholder, and isExpired is false.
Orig_C4_ZeroIsMissing ==
    out.fn # "none" /\ out.arg \in {Null, Undefined, Num(0)} =>
        out.value = IF out.fn = "isExpired" THEN Bool(FALSE) ELSE Str(Placeholder)

\* C4 (amended): for a missing (null or undefined) timestamp every formatter
\* emits the placeholder and isExpired is false; for a zero timestamp only
\* formatRelativeTime emits the placeholder and isExpired is false, while
\* formatDate and formatDateTime emit a date, not the placeholder.
Thm_C4_MissingPlaceholder ==
    /\ out.fn # "none" /\ out.arg \in {Null, Undefined} =>
         out.value = IF out.fn = "isExpired" THEN Bool(FALSE) ELSE Str(Placeholder)
    /\ out.fn # "none" /\ out.arg = Num(0) =>
         CASE out.fn = "isExpired" -> out.value = Bool(FALSE)
           [] out.fn = "formatRelativeTime" -> out.value = Str(Placeholder)
           [] OTHER -> out.value # Str(Placeholder)

Wit_C4_ZeroDateTime ==
    /\ out.fn = "formatDateTime"
    /\ out.arg = Num(0)
    /\ out.value # Str(Placeholder)

\* C9 as stated: for a non-falsy timestamp and one clock value read by both
\* functions, formatRelativeTime gives an "Ended ... ago" string exactly when
\* isExpired is true, and a "... left" string exactly when it is false.
Orig_C9_ExpiryAgrees ==
    IsRelativeCall =>
        /\ StartsWithEnded(out.value.v) <=> isExpired(out.arg)
        /\ EndsWithLeft(out.value.v) <=> ~isExpired(out.arg)

\* C9 (amended): the two agree whenever the clock value differs from the
\* timestamp; in the second the timestamp names, formatRelativeTime gives
\* "Ended 0 minutes ago" while isExpired is false.
Thm_C9_ExpiryAgreesOffDeadline ==
    IsRelativeCall =>
        /\ out.now = NowSeconds
        /\ OutDiff # 0 =>
             /\ StartsWithEnded(out.value.v) <=> isExpired(out.arg)
             /\ EndsWithLeft(out.value.v) <=> ~isExpired(out.arg)
        /\ OutDiff = 0 =>
             /\ out.value = Str("Ended 0 minutes ago")
             /\ ~isExpired(out.arg)

Wit_C9_EndedAndExpired ==
    /\ IsRelativeCall
    /\ OutDiff < 0
    /\ StartsWithEnded(out.value.v)
    /\ isExpired(out.arg)

-----------------------------------------------------------------------------
(* currencyFormatter: the conversions between stroops (the smallest unit)   *)
(* and XLM (the major unit), and the progress percentage.                   *)

STROOPS_PER_XLM == 10000000

\* the largest amount of the exhaustive range 0..MaxAmount
MaxAmount == 30

\* amounts beyond the exhaustive range: the tests' values and the largest
\* integer of the model
LargeAmounts == {5000000, 10000000, 20000000, 2147483647}

AmountInputs ==
    {Null, Undefined} \cup {Num(a) : a \in (0..MaxAmount) \cup LargeAmounts}

\* raised amounts and goals of the progress calls
RaisedInputs ==
    {Null, Undefined}
        \cup {Num(a) : a \in {-5000000, 0, 1, 2, 3, 7, 125, 1999, 5000000,
                              9999999, 10000000, 10000001, 20000000}}

GoalInputs ==
    {Null, Undefined}
        \cup {Num(a) : a \in {0, 1, 3, 9, 800, 16000, 200000, 10000000, 2147483647}}

\* marks an xlmToStroops call whose argument was not converted from stroops
NoAmount == [t |-> "none"]

\* the number x as a double
ToDouble(x) ==
    CASE x.t = "double" -> x.d
      [] x.t = "undefined" -> FNaN
      [] OTHER -> FromInt(Number(x))

\* stroopsToXLM with a scale of 10^6
stroopsToXLMWrongScale(stroops) ==
    IF stroops.t \in {"null", "undefined"} THEN FZero
    ELSE FDiv(ToDouble(stroops), FromInt(1000000))

\* divides by 10^7; null and undefined yield 0
stroopsToXLM(stroops) ==
    IF stroops.t \in {"null", "undefined"} THEN FZero
    ELSE FDiv(ToDouble(stroops), FromInt(STROOPS_PER_XLM))

\* multiplies by 10^7; null and undefined yield 0
xlmToStroops(xlm) ==
    IF xlm.t \in {"null", "undefined"} THEN FZero
    ELSE FMul(ToDouble(xlm), FromInt(STROOPS_PER_XLM))

\* formatProgress that tests the goal with `goal === 0` alone
formatProgressZeroGoalOnly(raised, goal) ==
    IF goal = Num(0) \/ raised = Num(0)
    THEN [value |-> "0.00%", divisors |-> {}]
    ELSE
        LET g       == stroopsToXLM(goal)
            ratio   == FDiv(stroopsToXLM(raised), g)
            clamped == MathMin(MathMax(ratio, FZero), FromInt(1))
        IN  [value |-> toFixed2(FMul(clamped, FromInt(100))) \o "%",
             divisors |-> {FromInt(STROOPS_PER_XLM), g}]

\* formatProgress without the upper clamp
formatProgressUnclamped(raised, goal) ==
    IF Falsy(goal) \/ Falsy(raised)
    THEN [value |-> "0.00%", divisors |-> {}]
    ELSE
        LET g       == stroopsToXLM(goal)
            ratio   == FDiv(stroopsToXLM(raised), g)
            clamped == MathMax(ratio, FZero)
        IN  [value |-> toFixed2(FMul(clamped, FromInt(100))) \o "%",
             divisors |-> {FromInt(STROOPS_PER_XLM), g}]

\* "0.00%" for a goal of zero, null or undefined and for nothing raised;
\* otherwise raised / goal in major units, clamped to [0, 1], times 100, with
\* two decimals. `divisors` are the divisors of the divisions performed.
formatProgress(raised, goal) ==
    IF Falsy(goal) \/ Falsy(raised)
    THEN [value |-> "0.00%", divisors |-> {}]
    ELSE
        LET g       == stroopsToXLM(goal)
            ratio   == FDiv(stroopsToXLM(raised), g)
            clamped == MathMin(MathMax(ratio, FZero), FromInt(1))
        IN  [value |-> toFixed2(FMul(clamped, FromInt(100))) \o "%",
             divisors |-> {FromInt(STROOPS_PER_XLM), g}]

-----------------------------------------------------------------------------
(* The amount specification: callers convert and format amounts, one call   *)
(* at a time; a converted amount may be converted back.                     *)

AmountInit ==
    /\ clock = [s |-> ClockStart, ms |-> 0]
    /\ tzOffset = 0
    /\ out = NoCall
    /\ ScrollIdle

CallStroopsToXLM ==
    /\ out = NoCall
    /\ \E a \in AmountInputs :
        out' = [fn |-> "stroopsToXLM", arg |-> a, value |-> Dbl(stroopsToXLM(a))]
    /\ UNCHANGED <<clock, tzOffset, scrollVars>>

\* xlmToStroops of a value that is not the result of a conversion
CallXlmToStroops ==
    /\ out = NoCall
    /\ \E x \in {Null, Undefined, Num(0), Num(1)} :
        out' = [fn |-> "xlmToStroops", arg |-> x, stroops |-> NoAmount,
                value |-> Dbl(xlmToStroops(x))]
    /\ UNCHANGED <<clock, tzOffset, scrollVars>>

\* xlmToStroops(stroopsToXLM(a)): the round trip of the amount a
CallXlmToStroopsOfResult ==
    /\ out.fn = "stroopsToXLM"
    /\ out' = [fn |-> "xlmToStroops", arg |-> out.value, stroops |-> out.arg,
               value |-> Dbl(xlmToStroops(out.value))]
    /\ UNCHANGED <<clock, tzOffset, scrollVars>>

CallFormatProgress ==
    /\ out = NoCall
    /\ \E raised \in RaisedInputs, goal \in GoalInputs :
        LET run == formatProgress(raised, goal)
        IN  out' = [fn |-> "formatProgress", raised |-> raised, goal |-> goal,
                    value |-> Str(run.value), divisors |-> run.divisors]
    /\ UNCHANGED <<clock, tzOffset, scrollVars>>

AmountNext ==
    \/ CallStroopsToXLM
    \/ CallXlmToStroops
    \/ CallXlmToStroopsOfResult
    \/ CallFormatProgress
    \/ Return

AmountSpec == AmountInit /\ [][AmountNext]_vars

-----------------------------------------------------------------------------
(* Claims about currencyFormatter, checked under AmountSpec *)

IsDigit(ch) == \E d \in 0..9 : ToString(d) = ch

Digit(ch) == CHOOSE d \in 0..9 : ToString(d) = ch

AllDigits(s) == \A i \in 1..Len(s) : IsDigit(SubSeq(s, i, i))

RECURSIVE ParseNat(_)
ParseNat(s) ==
    IF Len(s) = 0 THEN 0
    ELSE ParseNat(SubSeq(s, 1, Len(s) - 1)) * 10 + Digit(SubSeq(s, Len(s), Len(s)))

\* s is digits, a point, exactly two digits and "%", with no needless zero
IsPercent(s) ==
    /\ Len(s) >= 5
    /\ SubSeq(s, Len(s), Len(s)) = "%"
    /\ SubSeq(s, Len(s) - 3, Len(s) - 3) = "."
    /\ AllDigits(SubSeq(s, 1, Len(s) - 4))
    /\ AllDigits(SubSeq(s, Len(s) - 2, Len(s) - 1))
    /\ (Len(s) > 5 => SubSeq(s, 1, 1) # "0")

\* the percentage s in hundredths of a percent
Hundredths(s) ==
    ParseNat(SubSeq(s, 1, Len(s) - 4)) * 100 + ParseNat(SubSeq(s, Len(s) - 2, Len(s) - 1))

BigAbsDiff(x, y) == IF BigCmp(x, y) >= 0 THEN BigSub(x, y) ELSE BigSub(y, x)

IsProgressCall == out.fn = "formatProgress"

\* C5: formatProgress returns "0.00%" whenever the goal is zero, null or
\* undefined (whatever was raised) or nothing was raised, and no call of it
\* divides by zero.
Thm_C5_ZeroGoalNoDivision ==
    IsProgressCall =>
        /\ out.goal \in {Num(0), Null, Undefined} \/ out.raised = Num(0) =>
             out.value = Str("0.00%")
        /\ \A d \in out.divisors : ~FIsZero(d)

Wit_C5_NullGoal ==
    /\ IsProgressCall
    /\ out.goal = Null
    /\ out.raised = Num(5000000)
    /\ out.value = Str("0.00%")

\* C6: for a goal > 0 and raised >= 0, formatProgress renders
\* min(raised / goal, 1) * 100 with exactly two decimals and "%": the
\* two-decimal number nearest to it, between 0.00 and 100.00, and "100.00%"
\* for every raised >= goal, equality included.
Thm_C6_ProgressClamped ==
    IsProgressCall /\ out.goal.t = "number" /\ out.raised.t = "number"
                   /\ out.goal.v > 0 /\ out.raised.v >= 0 =>
        LET g == out.goal.v
            c == IF out.raised.v < g THEN out.raised.v ELSE g
            n == Hundredths(out.value.v)
        IN  /\ IsPercent(out.value.v)
            /\ n >= 0 /\ n <= 10000
            /\ out.raised.v >= g => out.value = Str("100.00%")
            /\ BigCmp(BigShl(BigAbsDiff(BigMul(BigFromInt(n), BigFromInt(g)),
                                        BigMul(BigFromInt(10000), BigFromInt(c))), 1),
                      BigFromInt(g)) <= 0

Wit_C6_GoalMetExactly ==
    /\ IsProgressCall
    /\ out.goal = Num(10000000)
    /\ out.raised = Num(10000000)
    /\ out.value = Str("100.00%")

IsRoundTrip ==
    /\ out.fn = "xlmToStroops"
    /\ out.stroops.t = "number"
    /\ out.stroops.v >= 0

NullYieldsZero ==
    out.fn \in {"stroopsToXLM", "xlmToStroops"} /\ out.arg \in {Null, Undefined} =>
        out.value = Dbl(FZero)

-----------------------------------------------------------------------------
(* ScrollToTop: the widget of scroll-to-top.js and the component of         *)
(* ScrollToTop.tsx, both listening to the window's scroll events.           *)

\* the largest scroll position, in pixels
MaxScrollY == 1000

\* the scroll positions the page takes
ScrollPositions == {0, 1, 150, 151, 299, 300, 301, MaxScrollY}

\* the options a page constructs the widget with; scroll-to-top.js itself
\* passes {threshold: 300}
ConstructorOptions == {Undefined, Num(0), Num(150), Num(300)}

\* how many function objects the widget may create
MaxClosures == 3

SCROLL_THRESHOLD == 300

\* options.threshold || 300
ThresholdOf(option) == IF Falsy(option) THEN 300 ELSE Number(option)

\* constructor, init, createButton: the button starts hidden and in the DOM
NewWidget(option) ==
    [constructed |-> TRUE,
     threshold   |-> ThresholdOf(option),
     isVisible   |-> FALSE,
     opacity     |-> "0",
     visibility  |-> "hidden",
     attached    |-> TRUE,
     destroyed   |-> FALSE,
     seen        |-> NotSeen,
     before      |-> FALSE,
     called      |-> "none"]

show(w) == [w EXCEPT !.isVisible = TRUE, !.opacity = "1", !.visibility = "visible",
                     !.called = "show"]

hide(w) == [w EXCEPT !.isVisible = FALSE, !.opacity = "0", !.visibility = "hidden",
                     !.called = "hide"]

\* handleScroll with `>=`: the button shows at the threshold itself
handleScrollAtThreshold(w, y) ==
    LET shouldBeVisible == y >= w.threshold
        seen == [w EXCEPT !.seen = Num(y), !.before = w.isVisible, !.called = "none"]
    IN  IF shouldBeVisible /\ ~w.isVisible THEN show(seen)
        ELSE IF ~shouldBeVisible /\ w.isVisible THEN hide(seen)
        ELSE seen

\* handleScroll, with window.scrollY = y; `seen`, `before` and `called` record
\* the position it read, the flag as it found it and the method it invoked
handleScroll(w, y) ==
    LET shouldBeVisible == y > w.threshold
        seen == [w EXCEPT !.seen = Num(y), !.before = w.isVisible, !.called = "none"]
    IN  IF shouldBeVisible /\ ~w.isVisible THEN show(seen)
        ELSE IF ~shouldBeVisible /\ w.isVisible THEN hide(seen)
        ELSE seen

\* the widget after each of its n registered listeners has run
RECURSIVE RunListeners(_, _, _)
RunListeners(w, y, n) ==
    IF n = 0 THEN w ELSE RunListeners(handleScroll(w, y), y, n - 1)

\* the component's handleScroll: setIsVisible(window.scrollY > SCROLL_THRESHOLD)
tsxHandleScroll(c, y) ==
    [c EXCEPT !.isVisible = y > SCROLL_THRESHOLD, !.seen = Num(y)]

\* what the component renders: the button, or null
tsxRendersButton == tsx.mounted /\ tsx.isVisible

ScrollInit ==
    /\ clock = [s |-> ClockStart, ms |-> 0]
    /\ tzOffset = 0
    /\ out = NoCall
    /\ readyState \in {"loading", "complete"}
    /\ scrollY = 0
    /\ scrollPending = FALSE
    /\ smooth = FALSE
    /\ tsx = TsxUnmounted
    /\ \E option \in ConstructorOptions :
         IF readyState = "loading"
         THEN /\ widget = [constructed |-> FALSE, option |-> option]
              /\ listeners = {}
              /\ nextFn = 1
         ELSE /\ widget = NewWidget(option)
              /\ listeners = {1}
              /\ nextFn = 2

\* the DOMContentLoaded listener: new ScrollToTop(options); attachEventListeners
\* registers a new arrow function
DOMContentLoaded ==
    /\ readyState = "loading"
    /\ ~widget.constructed
    /\ readyState' = "complete"
    /\ widget' = NewWidget(widget.option)
    /\ listeners' = listeners \cup {nextFn}
    /\ nextFn' = nextFn + 1
    /\ UNCHANGED <<clock, tzOffset, out, scrollY, scrollPending, smooth, tsx>>

\* the user scrolls the page: the position changes and a scroll event is queued
UserScroll ==
    \E y \in ScrollPositions :
        /\ y # scrollY
        /\ scrollY' = y
        /\ scrollPending' = TRUE
        /\ smooth' = FALSE
        /\ UNCHANGED <<clock, tzOffset, out, readyState, widget, listeners, nextFn, tsx>>

\* the queued scroll event is dispatched: every registered listener runs
\* and reads window.scrollY
FireScroll ==
    /\ scrollPending
    /\ scrollPending' = FALSE
    /\ widget' = IF widget.constructed
                 THEN RunListeners(widget, scrollY, Cardinality(listeners))
                 ELSE widget
    /\ tsx' = IF tsx.listening THEN tsxHandleScroll(tsx, scrollY) ELSE tsx
    /\ UNCHANGED <<clock, tzOffset, out, readyState, scrollY, smooth, listeners, nextFn>>

\* a click on a shown button: scrollToTop, window.scrollTo({top: 0, behavior: "smooth"})
ClickButton ==
    /\ \/ widget.constructed /\ widget.attached /\ widget.visibility = "visible"
       \/ tsxRendersButton
    /\ scrollY > 0
    /\ smooth' = TRUE
    /\ UNCHANGED <<clock, tzOffset, out, readyState, scrollY, scrollPending, widget,
                   listeners, nextFn, tsx>>

\* one frame of the smooth scroll towards the top
SmoothStep ==
    /\ smooth
    /\ \E y \in ScrollPositions :
        /\ y < scrollY
        /\ scrollY' = y
        /\ smooth' = (y # 0)
    /\ scrollPending' = TRUE
    /\ UNCHANGED <<clock, tzOffset, out, readyState, widget, listeners, nextFn, tsx>>

\* destroy(): the button leaves the DOM; removeEventListener is passed a new
\* arrow function, which is none of the registered ones
destroy ==
    /\ widget.constructed
    /\ nextFn <= MaxClosures
    /\ widget' = [widget EXCEPT !.attached = FALSE, !.destroyed = TRUE]
    /\ listeners' = listeners \ {nextFn}
    /\ nextFn' = nextFn + 1
    /\ UNCHANGED <<clock, tzOffset, out, readyState, scrollY, scrollPending, smooth, tsx>>

\* React mounts the component: useState(false), and the effect registers
\* handleScroll
TsxMount ==
    /\ ~tsx.mounted
    /\ tsx' = [mounted |-> TRUE, isVisible |-> FALSE, listening |-> TRUE,
               seen |-> NotSeen]
    /\ UNCHANGED <<clock, tzOffset, out, readyState, scrollY, scrollPending, smooth,
                   widget, listeners, nextFn>>

\* React unmounts the component: the effect's cleanup removes handleScroll
TsxUnmount ==
    /\ tsx.mounted
    /\ tsx' = TsxUnmounted
    /\ UNCHANGED <<clock, tzOffset, out, readyState, scrollY, scrollPending, smooth,
                   widget, listeners, nextFn>>

ScrollNext ==
    \/ DOMContentLoaded
    \/ UserScroll
    \/ FireScroll
    \/ ClickButton
    \/ SmoothStep
    \/ destroy
    \/ TsxMount
    \/ TsxUnmount

ScrollSpec == ScrollInit /\ [][ScrollNext]_vars

-----------------------------------------------------------------------------
(* Claims about ScrollToTop, checked under ScrollSpec *)

\* C8: starting hidden, after any scroll events have been handled the
\* widget's isVisible flag equals (scrollY of the latest handled event >
\* threshold, 300 by default); the button's style is visible with opacity 1
\* exactly when isVisible, hidden with opacity 0 otherwise; show() and hide()
\* are invoked only when the visibility changes. The React component's flag
\* equals (scrollY of the latest handled event > 300) and it renders the
\* button exactly when the flag is set.
Thm_C8_VisibilityTracksScroll ==
    /\ widget.constructed =>
         /\ widget.threshold \in {150, 300}
         /\ widget.isVisible = (widget.seen # NotSeen /\ widget.seen.v > widget.threshold)
         /\ widget.isVisible =>
              widget.visibility = "visible" /\ widget.opacity = "1"
         /\ ~widget.isVisible =>
              widget.visibility = "hidden" /\ widget.opacity = "0"
         /\ widget.called = "show" => ~widget.before /\ widget.isVisible
         /\ widget.called = "hide" => widget.before /\ ~widget.isVisible
         /\ widget.called = "none" => widget.before = widget.isVisible
    /\ tsx.isVisible = (tsx.seen # NotSeen /\ tsx.seen.v > 300)
    /\ tsxRendersButton => tsx.seen # NotSeen /\ tsx.seen.v > 300

\* the page rests 1 px past the threshold and the button is shown
Wit_C8_ShownPastThreshold ==
    /\ widget.constructed
    /\ ~scrollPending
    /\ widget.threshold = 300
    /\ widget.seen = Num(301)
    /\ widget.isVisible
    /\ widget.called = "show"
    /\ tsxRendersButton

\* C10: after destroy() no scroll event invokes the instance's handleScroll:
\* its isVisible flag and its button's style never change again.
Orig_C10_DestroyDetaches ==
    [][widget.constructed /\ widget.destroyed =>
         /\ widget'.seen = widget.seen
         /\ widget'.isVisible = widget.isVisible
         /\ widget'.opacity = widget.opacity
         /\ widget'.visibility = widget.visibility]_vars

====
